---- MODULE Spec2Model ----
(***************************************************************************)
(* A model of goblin's context-polymorphic binary codec:                   *)
(*   src/src/elf/program_header.rs  (ELF program headers)                  *)
(*   src/src/mach/symbols.rs        (Mach-O nlist symbol tables)           *)
(*                                                                         *)
(* Bytes are naturals 0..255 and a buffer is a sequence of bytes; a code   *)
(* offset o is the sequence index o + 1.  A multi-byte integer (u16, u32,  *)
(* u64) is kept as its sequence of base-256 digits, least significant      *)
(* first, so that `as u32` is "keep the low four digits", `as u64` is "pad *)
(* with zero digits", and the two byte orders are the digit sequence and   *)
(* its reverse.  Offsets and lengths (usize values that index a buffer)    *)
(* are naturals, saturated at Big: every value >= Big is past the end of   *)
(* every buffer of the model.                                              *)
(***************************************************************************)
EXTENDS Integers, Sequences, FiniteSets, TLC

\* ------------------------------------------------------------------ bounds
\* largest count handed to ProgramHeader::parse / from_bytes
MaxCount == 2
\* largest declared symbol count of a view
MaxSyms == 2
\* largest index handed to Symbols::get
MaxIndex == 2
\* calls of next() explored after an iterator reported its end
MaxExtra == 1
\* offsets at or above Big are all past the end of every buffer
Big == 65536

\* ------------------------------------------------------------------ helpers
Min(a, b) == IF a < b THEN a ELSE b
Max(a, b) == IF a < b THEN b ELSE a
Reverse(s) == [i \in 1..Len(s) |-> s[Len(s) + 1 - i]]
Zeros(n) == [i \in 1..(IF n < 0 THEN 0 ELSE n) |-> 0]
\* &bytes[o..] for o <= len
Slice(bytes, o) == SubSeq(bytes, o + 1, Len(bytes))
\* saturating usize arithmetic of the model
SatAdd(a, b) == Min(a + b, Big)
SatMul(a, b) == IF a = 0 \/ b = 0 THEN 0 ELSE IF a >= Big \/ b >= Big THEN Big ELSE Min(a * b, Big)
\* the usize a digit sequence stands for, saturated at Big
RECURSIVE HighZero(_, _)
HighZero(d, k) == k > Len(d) \/ (d[k] = 0 /\ HighZero(d, k + 1))
ToUsize(d) ==
  IF Len(d) = 0 THEN 0
  ELSE IF Len(d) = 1 THEN d[1]
  ELSE IF HighZero(d, 3) THEN Min(d[1] + 256 * d[2], Big) ELSE Big

\* ------------------------------------------------------------------ container::Ctx
Containers == {"Little", "Big"}
Endians == {"LE", "BE"}
Ctxs == [container : Containers, le : Endians]

\* ------------------------------------------------------------------ results
NoErr == [kind |-> "none", a |-> 0, b |-> 0]
BadOffset(o) == [kind |-> "BadOffset", a |-> o, b |-> 0]
TooBig(size, len) == [kind |-> "TooBig", a |-> size, b |-> len]
BadInput(size) == [kind |-> "BadInput", a |-> size, b |-> 0]
NoVal == <<>>
\* a result: val and size (bytes consumed) on success, err on failure;
\* hi is one past the highest buffer index the operation has read
Ok(v, n, h) == [ok |-> TRUE, val |-> v, size |-> n, err |-> NoErr, hi |-> h]
Err(e, h) == [ok |-> FALSE, val |-> NoVal, size |-> 0, err |-> e, hi |-> h]
\* the result of a read on &bytes[o..], seen from bytes
Shift(r, o) == [r EXCEPT !.hi = IF r.hi = 0 THEN 0 ELSE r.hi + o]

\* ------------------------------------------------------------------ scroll: integers
\* byte i (0-based) of src; a read past the end yields 0 and is visible in hi
At(src, i) == IF i < Len(src) THEN src[i + 1] ELSE 0
Bytes(src, o, size) == [i \in 1..size |-> At(src, o + i - 1)]

\* the variant of gread_int without the length check (used as a mutant)
gread_int_unchecked(src, o, size, le) ==
  Ok(IF le = "LE" THEN Bytes(src, o, size) ELSE Reverse(Bytes(src, o, size)), size, o + size)

\* the variant of gread_int that reads every integer little-endian, whatever the
\* context says (used as a mutant)
gread_int_le_only(src, o, size, le) ==
  IF o >= Len(src) THEN Err(BadOffset(o), 0)
  ELSE IF size > Len(src) - o THEN Err(TooBig(size, Len(src) - o), 0)
  ELSE Ok(Bytes(src, o, size), size, o + size)

\* <[u8] as Pread>::gread_with::<uN>(&mut o, le): BadOffset when o is at or past the
\* end, TooBig when fewer than `size` bytes remain, else the integer in order `le`
gread_int(src, o, size, le) ==
  IF o >= Len(src) THEN Err(BadOffset(o), 0)
  ELSE IF size > Len(src) - o THEN Err(TooBig(size, Len(src) - o), 0)
  ELSE Ok(IF le = "LE" THEN Bytes(src, o, size) ELSE Reverse(Bytes(src, o, size)), size, o + size)

\* #[derive(Pread)]: the fields are read in declaration order, the offset threaded
\* through; the first failing field ends the read with its error
RECURSIVE gread_fields(_, _, _, _, _, _, _)
gread_fields(src, sizes, le, k, off, vals, hi) ==
  IF k > Len(sizes) THEN Ok(vals, off, hi)
  ELSE LET r == gread_int(src, off, sizes[k], le) IN
       IF ~r.ok THEN Err(r.err, Max(hi, r.hi))
       ELSE gread_fields(src, sizes, le, k + 1, off + r.size, Append(vals, r.val), Max(hi, r.hi))

\* <[u8] as Pwrite>::gwrite_with::<uN>: the buffer after the write, or the error
gwrite_int(dst, o, d, le) ==
  IF o >= Len(dst) THEN [ok |-> FALSE, size |-> 0, err |-> BadOffset(o), buf |-> dst]
  ELSE IF Len(d) > Len(dst) - o
    THEN [ok |-> FALSE, size |-> 0, err |-> TooBig(Len(d), Len(dst) - o), buf |-> dst]
  ELSE LET w == IF le = "LE" THEN d ELSE Reverse(d) IN
       [ok |-> TRUE, size |-> Len(d), err |-> NoErr,
        buf |-> [i \in 1..Len(dst) |-> IF i > o /\ i <= o + Len(d) THEN w[i - o] ELSE dst[i]]]

\* #[derive(Pwrite)]: the fields are written in declaration order; a failing field
\* ends the write with its error, the fields before it already stored
RECURSIVE gwrite_fields(_, _, _, _, _)
gwrite_fields(dst, vals, le, k, off) ==
  IF k > Len(vals) THEN [ok |-> TRUE, size |-> off, err |-> NoErr, buf |-> dst]
  ELSE LET r == gwrite_int(dst, off, vals[k], le) IN
       IF ~r.ok THEN r
       ELSE gwrite_fields(r.buf, vals, le, k + 1, off + r.size)

\* ------------------------------------------------------------------ ELF program headers
SIZEOF_PHDR_32 == 32
SIZEOF_PHDR_64 == 56

\* program_header32::ProgramHeader: the fields in declaration (= wire) order, 4 bytes each
PH32_FIELDS == <<"p_type", "p_offset", "p_vaddr", "p_paddr", "p_filesz", "p_memsz", "p_flags", "p_align">>
PH32_SIZES == <<4, 4, 4, 4, 4, 4, 4, 4>>
\* program_header64::ProgramHeader: two 4-byte fields, then six 8-byte fields
PH64_FIELDS == <<"p_type", "p_flags", "p_offset", "p_vaddr", "p_paddr", "p_filesz", "p_memsz", "p_align">>
PH64_SIZES == <<4, 4, 8, 8, 8, 8, 8, 8>>

\* the struct with fields `names` holding `vals`, and back
IndexOf(names, f) == CHOOSE i \in 1..Len(names) : names[i] = f
ToStruct(names, vals) == [f \in {names[i] : i \in 1..Len(names)} |-> vals[IndexOf(names, f)]]
FromStruct(names, st) == [i \in 1..Len(names) |-> st[names[i]]]

\* `x as u32`, `x as u64`
AsU32(d) == SubSeq(d \o Zeros(4 - Len(d)), 1, 4)
AsU64(d) == SubSeq(d \o Zeros(8 - Len(d)), 1, 8)

\* impl From<program_header32::ProgramHeader> for ElfProgramHeader
From32ToElf(ph) ==
  [p_type |-> ph.p_type, p_flags |-> ph.p_flags,
   p_offset |-> AsU64(ph.p_offset), p_vaddr |-> AsU64(ph.p_vaddr), p_paddr |-> AsU64(ph.p_paddr),
   p_filesz |-> AsU64(ph.p_filesz), p_memsz |-> AsU64(ph.p_memsz), p_align |-> AsU64(ph.p_align)]
\* impl From<program_header64::ProgramHeader> for ElfProgramHeader
From64ToElf(ph) ==
  [p_type |-> ph.p_type, p_flags |-> ph.p_flags,
   p_offset |-> AsU64(ph.p_offset), p_vaddr |-> AsU64(ph.p_vaddr), p_paddr |-> AsU64(ph.p_paddr),
   p_filesz |-> AsU64(ph.p_filesz), p_memsz |-> AsU64(ph.p_memsz), p_align |-> AsU64(ph.p_align)]
\* a narrowing conversion that stores p_memsz in p_filesz too (used as a mutant)
FromElfTo32_filesz_slip(ph) ==
  [p_type |-> ph.p_type, p_flags |-> ph.p_flags,
   p_offset |-> AsU32(ph.p_offset), p_vaddr |-> AsU32(ph.p_vaddr), p_paddr |-> AsU32(ph.p_paddr),
   p_filesz |-> AsU32(ph.p_memsz), p_memsz |-> AsU32(ph.p_memsz), p_align |-> AsU32(ph.p_align)]
\* impl From<ElfProgramHeader> for program_header32::ProgramHeader ($size = u32)
FromElfTo32(ph) ==
  [p_type |-> ph.p_type, p_flags |-> ph.p_flags,
   p_offset |-> AsU32(ph.p_offset), p_vaddr |-> AsU32(ph.p_vaddr), p_paddr |-> AsU32(ph.p_paddr),
   p_filesz |-> AsU32(ph.p_filesz), p_memsz |-> AsU32(ph.p_memsz), p_align |-> AsU32(ph.p_align)]
\* impl From<ElfProgramHeader> for program_header64::ProgramHeader ($size = u64)
FromElfTo64(ph) ==
  [p_type |-> ph.p_type, p_flags |-> ph.p_flags,
   p_offset |-> AsU64(ph.p_offset), p_vaddr |-> AsU64(ph.p_vaddr), p_paddr |-> AsU64(ph.p_paddr),
   p_filesz |-> AsU64(ph.p_filesz), p_memsz |-> AsU64(ph.p_memsz), p_align |-> AsU64(ph.p_align)]

\* a size_with that lets the byte order pick the size (used as a mutant)
ProgramHeader_size_with_by_order(c) ==
  IF c.le = "LE" THEN SIZEOF_PHDR_32 ELSE SIZEOF_PHDR_64
\* impl ctx::SizeWith<Ctx> for ProgramHeader
ProgramHeader_size_with(c) ==
  IF c.container = "Little" THEN SIZEOF_PHDR_32 ELSE SIZEOF_PHDR_64

\* bytes.pread_with::<program_header32::ProgramHeader>(0, le), and the 64-bit one
pread_ph32(bytes, le) ==
  LET r == gread_fields(bytes, PH32_SIZES, le, 1, 0, <<>>, 0) IN
  IF r.ok THEN Ok(ToStruct(PH32_FIELDS, r.val), r.size, r.hi) ELSE r
pread_ph64(bytes, le) ==
  LET r == gread_fields(bytes, PH64_SIZES, le, 1, 0, <<>>, 0) IN
  IF r.ok THEN Ok(ToStruct(PH64_FIELDS, r.val), r.size, r.hi) ELSE r

\* impl TryFromCtx<Ctx> for ProgramHeader::try_from_ctx (read-one on a slice)
ProgramHeader_try_from_ctx(bytes, c) ==
  IF c.container = "Little"
  THEN LET r == pread_ph32(bytes, c.le) IN
       IF r.ok THEN Ok(From32ToElf(r.val), SIZEOF_PHDR_32, r.hi) ELSE r
  ELSE LET r == pread_ph64(bytes, c.le) IN
       IF r.ok THEN Ok(From64ToElf(r.val), SIZEOF_PHDR_64, r.hi) ELSE r

\* bytes.gread_with::<ProgramHeader>(&mut offset, ctx): BadOffset at or past the end,
\* else try_from_ctx on &bytes[offset..]; .size is what the offset advances by
gread_ph(bytes, offset, c) ==
  IF offset >= Len(bytes) THEN Err(BadOffset(offset), 0)
  ELSE Shift(ProgramHeader_try_from_ctx(Slice(bytes, offset), c), offset)

\* impl TryIntoCtx<Ctx> for ProgramHeader::try_into_ctx (write-one at offset 0)
ProgramHeader_try_into_ctx(h, bytes, c) ==
  IF c.container = "Little"
  THEN gwrite_fields(bytes, FromStruct(PH32_FIELDS, FromElfTo32(h)), c.le, 1, 0)
  ELSE gwrite_fields(bytes, FromStruct(PH64_FIELDS, FromElfTo64(h)), c.le, 1, 0)

\* bytes.pwrite_with(h, offset, ctx): BadOffset at or past the end, else try_into_ctx
\* on &mut bytes[offset..]
gwrite_ph(bytes, offset, h, c) ==
  IF offset >= Len(bytes) THEN [ok |-> FALSE, size |-> 0, err |-> BadOffset(offset), buf |-> bytes]
  ELSE LET w == ProgramHeader_try_into_ctx(h, Slice(bytes, offset), c) IN
       [w EXCEPT !.buf = SubSeq(bytes, 1, offset) \o w.buf]

\* a bulk read that advances by the narrow size whatever the context (used as a mutant)
RECURSIVE ProgramHeader_parse_narrow_step(_, _, _, _)
ProgramHeader_parse_narrow_step(bytes, offset, count, c) ==
  IF count = 0 THEN Ok(<<>>, 0, 0)
  ELSE LET g == gread_ph(bytes, offset, c) IN
       IF ~g.ok THEN g
       ELSE LET rest == ProgramHeader_parse_narrow_step(bytes, offset + SIZEOF_PHDR_32, count - 1, c) IN
            IF ~rest.ok THEN Err(rest.err, Max(g.hi, rest.hi))
            ELSE Ok(<<g.val>> \o rest.val, 0, Max(g.hi, rest.hi))

\* ProgramHeader::parse(bytes, offset, count, ctx): count times gread_with, the first
\* error returned in place of the list
RECURSIVE ProgramHeader_parse(_, _, _, _)
ProgramHeader_parse(bytes, offset, count, c) ==
  IF count = 0 THEN Ok(<<>>, 0, 0)
  ELSE LET g == gread_ph(bytes, offset, c) IN
       IF ~g.ok THEN g
       ELSE LET rest == ProgramHeader_parse(bytes, offset + g.size, count - 1, c) IN
            IF ~rest.ok THEN Err(rest.err, Max(g.hi, rest.hi))
            ELSE Ok(<<g.val>> \o rest.val, 0, Max(g.hi, rest.hi))

\* ProgramHeader::new(): PT_LOAD, nothing set, p_align = 2 << 20
ProgramHeader_new ==
  [p_type |-> <<1, 0, 0, 0>>, p_flags |-> Zeros(4),
   p_offset |-> Zeros(8), p_vaddr |-> Zeros(8), p_paddr |-> Zeros(8),
   p_filesz |-> Zeros(8), p_memsz |-> Zeros(8), p_align |-> <<0, 0, 32, 0, 0, 0, 0, 0>>]

\* a + b on digit sequences of one length: the digits of the sum, then the carry out
RECURSIVE AddDigits(_, _, _, _)
AddDigits(a, b, k, carry) ==
  IF k > Len(a) THEN <<carry>>
  ELSE <<(a[k] + b[k] + carry) % 256>> \o AddDigits(a, b, k + 1, (a[k] + b[k] + carry) \div 256)

\* ProgramHeader::to_range on a target whose usize has w bytes: p_offset as usize ..
\* p_offset as usize + p_filesz as usize.  The addition overflows when it carries out
\* of w bytes: a panic with overflow checks on, the wrapped sum with them off.
to_range(h, w, checks) ==
  LET start == SubSeq(h.p_offset, 1, w)
      sum == AddDigits(start, SubSeq(h.p_filesz, 1, w), 1, 0) IN
  [panic |-> sum[w + 1] # 0 /\ checks, start |-> start, end |-> SubSeq(sum, 1, w)]

\* program_header32/64::ProgramHeader::from_bytes(bytes, phnum): phnum wire records
\* copied from the front of bytes in the target's own byte order; copy_from_bytes
\* fails on a buffer shorter than phnum records and expect() then panics
RECURSIVE from_bytes_records(_, _, _, _)
from_bytes_records(bytes, n, wide, native) ==
  IF n = 0 THEN <<>>
  ELSE LET sz == IF wide THEN SIZEOF_PHDR_64 ELSE SIZEOF_PHDR_32
           r == IF wide THEN pread_ph64(bytes, native) ELSE pread_ph32(bytes, native) IN
       <<r.val>> \o from_bytes_records(Slice(bytes, sz), n - 1, wide, native)
from_bytes(bytes, phnum, wide, native) ==
  LET sz == IF wide THEN SIZEOF_PHDR_64 ELSE SIZEOF_PHDR_32 IN
  IF Len(bytes) < phnum * sz
  THEN [panic |-> TRUE, val |-> <<>>]
  ELSE [panic |-> FALSE, val |-> from_bytes_records(bytes, phnum, wide, native)]

\* ------------------------------------------------------------------ Mach-O nlist symbols
SIZEOF_NLIST_32 == 12
SIZEOF_NLIST_64 == 16

\* Nlist32 / Nlist64: n_strx u32, n_type u8, n_sect u8, n_desc u16, n_value u32 / u64
NLIST_FIELDS == <<"n_strx", "n_type", "n_sect", "n_desc", "n_value">>
NLIST32_SIZES == <<4, 1, 1, 2, 4>>
NLIST64_SIZES == <<4, 1, 1, 2, 8>>

\* impl From<Nlist32> for Nlist and impl From<Nlist64> for Nlist: n_strx and n_sect
\* widen to usize, n_value to u64; n_type and n_sect are kept as numbers 0..255
From32ToNlist(n) ==
  [n_strx |-> AsU64(n.n_strx), n_type |-> n.n_type[1], n_sect |-> n.n_sect[1],
   n_desc |-> n.n_desc, n_value |-> AsU64(n.n_value)]
From64ToNlist(n) ==
  [n_strx |-> AsU64(n.n_strx), n_type |-> n.n_type[1], n_sect |-> n.n_sect[1],
   n_desc |-> n.n_desc, n_value |-> AsU64(n.n_value)]

\* a size_with that lets the byte order pick the size (used as a mutant)
Nlist_size_with_by_order(c) ==
  IF c.le = "LE" THEN SIZEOF_NLIST_32 ELSE SIZEOF_NLIST_64
\* impl ctx::SizeWith<container::Ctx> for Nlist
Nlist_size_with(c) ==
  IF c.container = "Little" THEN SIZEOF_NLIST_32 ELSE SIZEOF_NLIST_64

\* bytes.pread_with::<Nlist32>(0, le), and the 64-bit one
pread_nlist32(bytes, le) ==
  LET r == gread_fields(bytes, NLIST32_SIZES, le, 1, 0, <<>>, 0) IN
  IF r.ok THEN Ok(ToStruct(NLIST_FIELDS, r.val), r.size, r.hi) ELSE r
pread_nlist64(bytes, le) ==
  LET r == gread_fields(bytes, NLIST64_SIZES, le, 1, 0, <<>>, 0) IN
  IF r.ok THEN Ok(ToStruct(NLIST_FIELDS, r.val), r.size, r.hi) ELSE r

\* impl TryFromCtx<container::Ctx> for Nlist::try_from_ctx (read-one on a slice)
Nlist_try_from_ctx(bytes, c) ==
  IF c.container = "Little"
  THEN LET r == pread_nlist32(bytes, c.le) IN
       IF r.ok THEN Ok(From32ToNlist(r.val), SIZEOF_NLIST_32, r.hi) ELSE r
  ELSE LET r == pread_nlist64(bytes, c.le) IN
       IF r.ok THEN Ok(From64ToNlist(r.val), SIZEOF_NLIST_64, r.hi) ELSE r

\* data.gread_with::<Nlist>(&mut offset, ctx) / data.pread_with::<Nlist>(offset, ctx)
gread_nlist(bytes, offset, c) ==
  IF offset >= Len(bytes) THEN Err(BadOffset(offset), 0)
  ELSE Shift(Nlist_try_from_ctx(Slice(bytes, offset), c), offset)

\* core::str::from_utf8: is s, from index i on, well-formed UTF-8
IsCont(b) == b >= 128 /\ b <= 191
RECURSIVE Utf8From(_, _)
Utf8From(s, i) ==
  IF i > Len(s) THEN TRUE
  ELSE LET b == s[i]
           c(k) == IF i + k <= Len(s) THEN s[i + k] ELSE 0 IN
       IF b < 128 THEN Utf8From(s, i + 1)
       ELSE IF b >= 194 /\ b <= 223 THEN IsCont(c(1)) /\ Utf8From(s, i + 2)
       ELSE IF b = 224 THEN c(1) >= 160 /\ c(1) <= 191 /\ IsCont(c(2)) /\ Utf8From(s, i + 3)
       ELSE IF b = 237 THEN c(1) >= 128 /\ c(1) <= 159 /\ IsCont(c(2)) /\ Utf8From(s, i + 3)
       ELSE IF b >= 225 /\ b <= 239 THEN IsCont(c(1)) /\ IsCont(c(2)) /\ Utf8From(s, i + 3)
       ELSE IF b = 240
         THEN c(1) >= 144 /\ c(1) <= 191 /\ IsCont(c(2)) /\ IsCont(c(3)) /\ Utf8From(s, i + 4)
       ELSE IF b >= 241 /\ b <= 243
         THEN IsCont(c(1)) /\ IsCont(c(2)) /\ IsCont(c(3)) /\ Utf8From(s, i + 4)
       ELSE IF b = 244
         THEN c(1) >= 128 /\ c(1) <= 143 /\ IsCont(c(2)) /\ IsCont(c(3)) /\ Utf8From(s, i + 4)
       ELSE FALSE
from_utf8(s) == Utf8From(s, 1)

\* src.iter().take_while(|c| **c != 0).count()
RECURSIVE UntilNul(_, _)
UntilNul(src, n) == IF n < Len(src) /\ src[n + 1] # 0 THEN UntilNul(src, n + 1) ELSE n

\* data.pread::<&str>(o): scroll's read of a &str with the default StrCtx, the NUL
\* delimiter.  BadOffset at or past the end; else the bytes up to the first 0 byte, or
\* up to the end of the buffer when there is none; they must be UTF-8 (BadInput)
pread_str(bytes, o) ==
  IF o >= Len(bytes) THEN Err(BadOffset(o), 0)
  ELSE LET src == Slice(bytes, o)
           len == UntilNul(src, 0)
           seen == o + Min(len + 1, Len(src)) IN
       IF from_utf8(SubSeq(src, 1, len)) THEN Ok(SubSeq(src, 1, len), len + 1, seen)
       ELSE Err(BadInput(Len(src)), seen)

\* a name lookup that forgets the string-table base (used as a mutant)
with_name_no_base(bytes, strtab, r) ==
  IF ~r.ok THEN r
  ELSE LET n == pread_str(bytes, ToUsize(r.val.n_strx)) IN
       IF n.ok THEN Ok([name |-> n.val, sym |-> r.val], r.size, Max(r.hi, n.hi))
       ELSE Err(n.err, Max(r.hi, n.hi))

\* the (name, symbol) of a record read `r`, the name read at strtab + n_strx
with_name(bytes, strtab, r) ==
  IF ~r.ok THEN r
  ELSE LET n == pread_str(bytes, SatAdd(strtab, ToUsize(r.val.n_strx))) IN
       IF n.ok THEN Ok([name |-> n.val, sym |-> r.val], r.size, Max(r.hi, n.hi))
       ELSE Err(n.err, Max(r.hi, n.hi))

\* struct Symbols
NoView == [live |-> FALSE, data |-> <<>>, start |-> 0, nsyms |-> 0, strtab |-> 0,
           ctx |-> [container |-> "Little", le |-> "LE"]]
\* Symbols::new(bytes, start, count, strtab); dflt is container::Ctx::default(), the
\* width and byte order of the target the library was built for
Symbols_new(bytes, start, count, strtab, dflt) ==
  [live |-> TRUE, data |-> bytes, start |-> start, nsyms |-> count, strtab |-> strtab, ctx |-> dflt]

\* impl TryFromCtx<SymbolsCtx> for Symbols::try_from_ctx
Symbols_try_from_ctx(bytes, nsyms, strtab, c) ==
  Ok([live |-> TRUE, data |-> bytes, start |-> 0, nsyms |-> nsyms, strtab |-> strtab, ctx |-> c],
     Len(bytes), 0)

\* a parse that keeps the absolute string-table offset (used as a mutant)
Symbols_parse_absolute(bytes, symtab, c, checks) ==
  IF symtab.symoff >= Len(bytes) THEN [panic |-> FALSE, res |-> Err(BadOffset(symtab.symoff), 0)]
  ELSE [panic |-> FALSE,
        res |-> Symbols_try_from_ctx(Slice(bytes, symtab.symoff), symtab.nsyms, symtab.stroff, c)]

\* Symbols::parse(bytes, symtab, ctx).  stroff - symoff is a u32 subtraction: when
\* stroff < symoff it panics with overflow checks on and wraps to 2^32 - (symoff -
\* stroff), a value above Big, with them off.  Then bytes.pread_with(symoff, ..):
\* BadOffset when symoff is at or past the end, else the view over &bytes[symoff..]
Symbols_parse(bytes, symtab, c, checks) ==
  IF symtab.stroff < symtab.symoff /\ checks THEN [panic |-> TRUE, res |-> Err(NoErr, 0)]
  ELSE LET strtab == IF symtab.stroff < symtab.symoff THEN Big ELSE symtab.stroff - symtab.symoff IN
       IF symtab.symoff >= Len(bytes)
       THEN [panic |-> FALSE, res |-> Err(BadOffset(symtab.symoff), 0)]
       ELSE [panic |-> FALSE,
             res |-> Symbols_try_from_ctx(Slice(bytes, symtab.symoff), symtab.nsyms, strtab, c)]

\* the masks of the n_type byte, and the type value "undefined"
N_STAB == 224
N_TYPE == 14
N_EXT == 1
N_UNDF == 0
\* a & b on u8
RECURSIVE BitAnd(_, _)
BitAnd(a, b) ==
  IF a = 0 \/ b = 0 THEN 0 ELSE (a % 2) * (b % 2) + 2 * BitAnd(a \div 2, b \div 2)
\* Nlist::get_type, is_global, is_undefined, is_stab (all take &self)
Nlist_get_type(n) == BitAnd(n.n_type, N_TYPE)
Nlist_is_global(n) == BitAnd(n.n_type, N_EXT) # 0
\* an is_undefined that does not look at the section ordinal (used as a mutant)
Nlist_is_undefined_any_sect(n) == BitAnd(n.n_type, N_TYPE) = N_UNDF
Nlist_is_undefined(n) == n.n_sect = 0 /\ BitAnd(n.n_type, N_TYPE) = N_UNDF
Nlist_is_stab(n) == BitAnd(n.n_type, N_STAB) # 0

\* struct SymbolIterator
NoIter == [live |-> FALSE, data |-> <<>>, nsyms |-> 0, offset |-> 0, count |-> 0,
           ctx |-> [container |-> "Little", le |-> "LE"], strtab |-> 0]
\* Symbols::iter
Symbols_iter(v) ==
  [live |-> TRUE, data |-> v.data, nsyms |-> v.nsyms, offset |-> v.start, count |-> 0,
   ctx |-> v.ctx, strtab |-> v.strtab]


\* Symbols::get(index): `sym`, the record at start + index * size_with(ctx) ...
Symbols_get_sym(v, index) ==
  gread_nlist(v.data, SatAdd(v.start, SatMul(index, Nlist_size_with(v.ctx))), v.ctx)
\* ... then its name
Symbols_get(v, index) == with_name(v.data, v.strtab, Symbols_get_sym(v, index))

\* a next that counts only the steps whose record read succeeds (used as a mutant)
SymbolIterator_next_count_ok(it) ==
  IF it.count >= it.nsyms
  THEN [it |-> it, some |-> FALSE, symbol |-> Err(NoErr, 0), item |-> Err(NoErr, 0)]
  ELSE LET r == gread_nlist(it.data, it.offset, it.ctx) IN
       [it |-> [it EXCEPT !.count = IF r.ok THEN @ + 1 ELSE @, !.offset = @ + r.size],
        some |-> TRUE, symbol |-> r, item |-> with_name(it.data, it.strtab, r)]

\* a next whose cursor stays on a record whose name does not resolve (used as a mutant)
SymbolIterator_next_stay_on_bad_name(it) ==
  IF it.count >= it.nsyms
  THEN [it |-> it, some |-> FALSE, symbol |-> Err(NoErr, 0), item |-> Err(NoErr, 0)]
  ELSE LET r == gread_nlist(it.data, it.offset, it.ctx)
           item == with_name(it.data, it.strtab, r)
       IN [it |-> [it EXCEPT !.count = @ + 1, !.offset = IF item.ok THEN @ + r.size ELSE @],
           some |-> TRUE, symbol |-> r, item |-> item]

\* impl Iterator for SymbolIterator::next: None once count >= nsyms; else count += 1,
\* gread_with the record `symbol` (the offset advances only when the read succeeds),
\* then the name
SymbolIterator_next(it) ==
  IF it.count >= it.nsyms
  THEN [it |-> it, some |-> FALSE, symbol |-> Err(NoErr, 0), item |-> Err(NoErr, 0)]
  ELSE LET r == gread_nlist(it.data, it.offset, it.ctx) IN
       [it |-> [it EXCEPT !.count = @ + 1, !.offset = @ + r.size],
        some |-> TRUE, symbol |-> r, item |-> with_name(it.data, it.strtab, r)]

\* ------------------------------------------------------------------ inputs
\* ELF input buffers: a ramp of distinct bytes, of the lengths around the record sizes
RampBuf(n) == [i \in 1..n |-> (3 * i + 8) % 256]
ElfLens == {0, 1, 3, 31, 32, 33, 34, 55, 56, 57, 58, 65, 66, 113, 114, 120}
ElfBuffers == {RampBuf(n) : n \in ElfLens}
ElfOffsets == {0, 2}
\* destination buffers of write-one: zeroed, of the lengths around the record sizes
CodecLens == {0, 3, 31, 32, 34, 55, 56, 58}
CodecBuffers == {Zeros(n) : n \in CodecLens}

\* canonical headers handed to write-one and to_range
HdrSmall ==
  [p_type |-> <<6, 0, 0, 0>>, p_flags |-> <<5, 0, 0, 0>>,
   p_offset |-> <<0, 16, 0, 0, 0, 0, 0, 0>>, p_vaddr |-> <<0, 128, 4, 8, 0, 0, 0, 0>>,
   p_paddr |-> <<1, 128, 4, 9, 0, 0, 0, 0>>, p_filesz |-> <<2, 1, 0, 0, 0, 0, 0, 0>>,
   p_memsz |-> <<4, 3, 0, 0, 0, 0, 0, 0>>, p_align |-> <<0, 16, 0, 0, 0, 0, 0, 0>>]
HdrMax32 ==
  [p_type |-> <<81, 229, 116, 100>>, p_flags |-> <<255, 255, 255, 255>>,
   p_offset |-> <<255, 255, 255, 255, 0, 0, 0, 0>>, p_vaddr |-> <<254, 255, 255, 255, 0, 0, 0, 0>>,
   p_paddr |-> <<253, 255, 255, 255, 0, 0, 0, 0>>, p_filesz |-> <<1, 0, 0, 0, 0, 0, 0, 0>>,
   p_memsz |-> <<251, 255, 255, 255, 0, 0, 0, 0>>, p_align |-> <<250, 255, 255, 255, 0, 0, 0, 0>>]
HdrWide ==
  [HdrSmall EXCEPT !.p_offset = <<255, 255, 255, 255, 255, 255, 255, 255>>,
                   !.p_vaddr = <<1, 2, 3, 4, 5, 6, 7, 8>>,
                   !.p_filesz = <<1, 0, 0, 0, 0, 0, 0, 0>>,
                   !.p_memsz = <<0, 0, 0, 0, 1, 0, 0, 0>>]
Headers == {ProgramHeader_new, HdrSmall, HdrMax32, HdrWide}

\* every 64-bit field of h is representable in the width of c
Fits(h, c) ==
  c.container = "Big" \/
  \A f \in {"p_offset", "p_vaddr", "p_paddr", "p_filesz", "p_memsz", "p_align"} : HighZero(h[f], 5)

\* Mach-O input files: Prefix bytes of padding, a symbol table written with Nlist32 /
\* Nlist64's derived Pwrite in the file's context, then the string table, and
\* possibly the last byte of the file missing
Prefix == <<170, 187>>
BlobGood == <<0, 102, 111, 111, 0, 98, 97, 114, 0>>
BlobBadUtf8 == <<0, 102, 255, 111, 0, 98, 97, 114, 0>>
S1 == <<1, 0, 0, 0>>
S5 == <<5, 0, 0, 0>>
S9 == <<9, 0, 0, 0>>
SHuge == <<0, 0, 0, 1>>
\* the layouts: the n_strx of the records, the string table, the bytes cut off the end
Layouts ==
  { [t |-> <<S1, S5>>, blob |-> BlobGood, cut |-> 0],
    [t |-> <<S1, S5>>, blob |-> BlobGood, cut |-> 1],
    [t |-> <<S1, S5>>, blob |-> BlobBadUtf8, cut |-> 0],
    [t |-> <<S5, S9>>, blob |-> BlobGood, cut |-> 0],
    [t |-> <<SHuge, S1>>, blob |-> BlobGood, cut |-> 0],
    [t |-> <<S1>>, blob |-> <<>>, cut |-> 1],
    [t |-> <<>>, blob |-> BlobGood, cut |-> 0] }
\* record j of a table, as the values of the fields of the wire struct
WireNlist(j, strx, c) ==
  <<strx, <<IF j = 1 THEN 15 ELSE 1>>, <<IF j = 1 THEN 1 ELSE 0>>, <<j, 7>>,
    IF c.container = "Little" THEN <<16 * j, 32, 0, 64>> ELSE <<16 * j, 32, 0, 64, 0, 0, 0, 1>>>>
EncodeNlist(j, strx, c) ==
  gwrite_fields(Zeros(Nlist_size_with(c)), WireNlist(j, strx, c), c.le, 1, 0).buf
RECURSIVE EncodeTable(_, _, _)
EncodeTable(t, j, c) ==
  IF j > Len(t) THEN <<>> ELSE EncodeNlist(j, t[j], c) \o EncodeTable(t, j + 1, c)
MachFile(l, c) ==
  LET whole == Prefix \o EncodeTable(l.t, 1, c) \o l.blob IN SubSeq(whole, 1, Len(whole) - l.cut)
\* the file's LC_SYMTAB command: symoff, stroff, nsyms
MachCmd(l, c, n) ==
  [symoff |-> Len(Prefix), stroff |-> Len(Prefix) + Len(l.t) * Nlist_size_with(c), nsyms |-> n]
\* single narrow little-endian records of every type byte, with the section ordinals
\* none, first and last
SectOrdinals == {0, 1, 255}
NlistRecord(t, s) ==
  gwrite_fields(Zeros(SIZEOF_NLIST_32), <<S1, <<t>>, <<s>>, <<0, 0>>, <<0, 0, 0, 0>>>>, "LE", 1, 0).buf
NlistOffsets == {0, 2}

\* ------------------------------------------------------------------ state
VARIABLES
  mode,      \* the caller: "elf" reads a program-header table, "codec" writes headers
             \* and reads them back, "mach" reads the symbols of a Mach-O file, "nlist"
             \* reads one symbol entry and classifies it
  data,      \* the caller's byte buffer
  fctx,      \* the context the Mach-O file's header declares
  cmd,       \* the Mach-O file's symtab command
  wrote,     \* the write-one done on the buffer, if any: its arguments and success
  op,        \* the last operation and its arguments
  res,       \* and its result
  sym,       \* the record read inside the last get / next (their local `sym` / `symbol`)
  syms,      \* the Symbols view
  iters,     \* the SymbolIterators derived from it
  out,       \* per iterator, what each call of next() returned so far
  panicked   \* the process has panicked

vars == <<mode, data, fctx, cmd, wrote, op, res, sym, syms, iters, out, panicked>>

IterIds == {1, 2}
NoCtx == [container |-> "Little", le |-> "LE"]
NoCmd == [symoff |-> 0, stroff |-> 0, nsyms |-> 0]
NoWrite == [tried |-> FALSE, valid |-> FALSE, value |-> ProgramHeader_new, ctx |-> NoCtx, at |-> 0]
Op(name, c, a, b) == [name |-> name, ctx |-> c, a |-> a, b |-> b]

InitElf ==
  /\ mode = "elf"
  /\ data \in ElfBuffers
  /\ fctx = NoCtx
  /\ cmd = NoCmd

InitCodec ==
  /\ mode = "codec"
  /\ data \in CodecBuffers
  /\ fctx = NoCtx
  /\ cmd = NoCmd

InitMach ==
  /\ mode = "mach"
  /\ fctx \in Ctxs
  /\ \E l \in Layouts, n \in 0..MaxSyms :
        /\ data = MachFile(l, fctx)
        /\ \/ cmd = MachCmd(l, fctx, n)
           \* a corrupt command: the string table before the symbol table, or the
           \* symbol table past the end of the file
           \/ /\ n = 1 /\ l.t = <<S1, S5>> /\ l.blob = BlobGood /\ l.cut = 0
              /\ cmd \in {[MachCmd(l, fctx, n) EXCEPT !.stroff = 0],
                          [MachCmd(l, fctx, n) EXCEPT !.symoff = Len(data), !.stroff = Len(data)]}

InitNlist ==
  /\ mode = "nlist"
  /\ \E t \in 0..255, s \in SectOrdinals : data = NlistRecord(t, s)
  /\ fctx = NoCtx
  /\ cmd = NoCmd

Init ==
  /\ InitElf \/ InitCodec \/ InitMach \/ InitNlist
  /\ wrote = NoWrite
  /\ op = Op("none", NoCtx, 0, 0)
  /\ res = Err(NoErr, 0)
  /\ sym = Err(NoErr, 0)
  /\ syms = NoView
  /\ iters = [i \in IterIds |-> NoIter]
  /\ out = [i \in IterIds |-> <<>>]
  /\ panicked = FALSE

\* ------------------------------------------------------------------ ELF operations
\* read-one: data.pread_with::<ProgramHeader>(o, c)
ReadOne(o, c) ==
  /\ mode \in {"elf", "codec"} /\ ~panicked
  /\ op' = Op("read", c, o, 0)
  /\ res' = gread_ph(data, o, c)
  /\ UNCHANGED <<mode, data, fctx, cmd, wrote, sym, syms, iters, out, panicked>>

\* write-one: data.pwrite_with(h, o, c), of one header per buffer; a failed write
\* leaves the fields it stored
WriteOne(h, o, c) ==
  LET w == gwrite_ph(data, o, h, c) IN
  /\ mode = "codec" /\ ~panicked /\ ~wrote.tried
  /\ op' = Op("write", c, o, 0)
  /\ res' = IF w.ok THEN Ok(NoVal, w.size, 0) ELSE Err(w.err, 0)
  /\ data' = w.buf
  /\ wrote' = [tried |-> TRUE, valid |-> w.ok, value |-> h, ctx |-> c, at |-> o]
  /\ UNCHANGED <<mode, fctx, cmd, sym, syms, iters, out, panicked>>

\* bulk read: ProgramHeader::parse(data, o, n, c)
Parse(o, n, c) ==
  /\ mode = "elf" /\ ~panicked
  /\ op' = Op("parse", c, o, n)
  /\ res' = ProgramHeader_parse(data, o, n, c)
  /\ UNCHANGED <<mode, data, fctx, cmd, wrote, sym, syms, iters, out, panicked>>

\* program_header32/64::ProgramHeader::from_bytes(data, n) on a target of byte order native
FromBytes(n, wide, native) ==
  LET r == from_bytes(data, n, wide, native) IN
  /\ mode = "elf" /\ ~panicked
  /\ op' = Op("from_bytes", [container |-> IF wide THEN "Big" ELSE "Little", le |-> native], 0, n)
  /\ res' = IF r.panic THEN Err(NoErr, 0) ELSE Ok(r.val, 0, 0)
  /\ panicked' = r.panic
  /\ UNCHANGED <<mode, data, fctx, cmd, wrote, sym, syms, iters, out>>

\* to_range on a header the caller built or has just read, on a target whose usize has
\* w bytes, built with or without overflow checks
ToRange(h, w, checks) ==
  LET r == to_range(h, w, checks) IN
  /\ mode = "elf" /\ ~panicked
  /\ op' = Op("to_range", NoCtx, w, 0)
  /\ res' = IF r.panic THEN Err(NoErr, 0) ELSE Ok([start |-> r.start, end |-> r.end], 0, 0)
  /\ panicked' = r.panic
  /\ UNCHANGED <<mode, data, fctx, cmd, wrote, sym, syms, iters, out>>

\* ------------------------------------------------------------------ Mach-O operations
\* read-one: data.pread_with::<Nlist>(o, c), on the file before a view is made of it
ReadNlist(o, c) ==
  /\ mode \in {"mach", "nlist"} /\ ~panicked /\ ~syms.live
  /\ op' = Op("read_nlist", c, o, 0)
  /\ res' = gread_nlist(data, o, c)
  /\ UNCHANGED <<mode, data, fctx, cmd, wrote, sym, syms, iters, out, panicked>>

\* the four predicates called on the entry that the read-one just returned; they take
\* &self, so the entry the caller holds afterwards is the one it held before
Predicates ==
  /\ mode \in {"mach", "nlist"} /\ ~panicked
  /\ op.name = "read_nlist" /\ res.ok
  /\ op' = Op("predicates", op.ctx, op.a, 0)
  /\ sym' = res
  /\ res' = Ok([entry |-> res.val, get_type |-> Nlist_get_type(res.val),
                is_global |-> Nlist_is_global(res.val),
                is_undefined |-> Nlist_is_undefined(res.val),
                is_stab |-> Nlist_is_stab(res.val)], 0, 0)
  /\ UNCHANGED <<mode, data, fctx, cmd, wrote, syms, iters, out, panicked>>

\* Symbols::new(data, symoff, nsyms, stroff), on a target whose default context is c
NewView(c) ==
  /\ mode = "mach" /\ ~panicked /\ ~syms.live
  /\ op' = Op("new", c, 0, 0)
  /\ syms' = Symbols_new(data, cmd.symoff, cmd.nsyms, cmd.stroff, c)
  /\ res' = Ok(NoVal, 0, 0)
  /\ UNCHANGED <<mode, data, fctx, cmd, wrote, sym, iters, out, panicked>>

\* Symbols::parse(data, &cmd, fctx), built with or without overflow checks
ParseView(checks) ==
  LET r == Symbols_parse(data, cmd, fctx, checks) IN
  /\ mode = "mach" /\ ~panicked /\ ~syms.live
  /\ op' = Op("parse_syms", fctx, 0, 0)
  /\ panicked' = r.panic
  /\ syms' = IF r.res.ok THEN r.res.val ELSE NoView
  /\ res' = IF r.res.ok THEN Ok(NoVal, r.res.size, 0) ELSE r.res
  /\ UNCHANGED <<mode, data, fctx, cmd, wrote, sym, iters, out>>

\* syms.get(k), on a view before iterators are derived from it
Get(k) ==
  /\ mode = "mach" /\ ~panicked /\ syms.live
  /\ \A i \in IterIds : ~iters[i].live
  /\ op' = Op("get", syms.ctx, k, 0)
  /\ sym' = Symbols_get_sym(syms, k)
  /\ res' = Symbols_get(syms, k)
  /\ UNCHANGED <<mode, data, fctx, cmd, wrote, syms, iters, out, panicked>>

\* syms.iter(): iterator i starts afresh
Iter(i) ==
  /\ mode = "mach" /\ ~panicked /\ syms.live /\ ~iters[i].live
  /\ op' = Op("iter", syms.ctx, i, 0)
  /\ iters' = [iters EXCEPT ![i] = Symbols_iter(syms)]
  /\ out' = [out EXCEPT ![i] = <<>>]
  /\ res' = Ok(NoVal, 0, 0)
  /\ UNCHANGED <<mode, data, fctx, cmd, wrote, sym, syms, panicked>>

\* iters[i].next(), up to MaxExtra calls after the end
Next_(i) ==
  LET n == SymbolIterator_next(iters[i]) IN
  /\ mode = "mach" /\ ~panicked /\ iters[i].live
  /\ Len(out[i]) < iters[i].nsyms + MaxExtra
  /\ op' = Op("next", iters[i].ctx, i, 0)
  /\ iters' = [iters EXCEPT ![i] = n.it]
  /\ out' = [out EXCEPT ![i] = Append(@, [some |-> n.some, item |-> n.item])]
  /\ res' = n.item
  /\ sym' = n.symbol
  /\ UNCHANGED <<mode, data, fctx, cmd, wrote, syms, panicked>>

Next ==
  \/ \E o \in ElfOffsets, c \in Ctxs : ReadOne(o, c)
  \/ \E h \in Headers, o \in ElfOffsets, c \in Ctxs : WriteOne(h, o, c)
  \/ \E o \in ElfOffsets, n \in 0..MaxCount, c \in Ctxs : Parse(o, n, c)
  \/ \E n \in 0..MaxCount, wide \in BOOLEAN, native \in Endians : FromBytes(n, wide, native)
  \/ \E h \in Headers \cup (IF op.name = "read" /\ res.ok THEN {res.val} ELSE {}),
        w \in {4, 8}, checks \in BOOLEAN : ToRange(h, w, checks)
  \/ \E o \in NlistOffsets, c \in Ctxs : ReadNlist(o, c)
  \/ Predicates
  \/ \E c \in Ctxs : NewView(c)
  \/ \E checks \in BOOLEAN : ParseView(checks)
  \/ \E k \in 0..MaxIndex : Get(k)
  \/ \E i \in IterIds : Iter(i)
  \/ \E i \in IterIds : Next_(i)

Spec == Init /\ [][Next]_vars

\* ------------------------------------------------------------------ properties
\* the bytes remaining in the buffer at the offset of the last read-one
Remaining == Len(data) - op.a

\* C1: a canonical header whose 64-bit fields fit the width of the context, written
\* with write-one into a buffer with at least size(ctx) bytes left, is written whole,
\* and read-one at the same offset under the same context then succeeds and returns
\* a header equal to it in all eight fields.
C1_RoundTrip ==
  /\ (op.name = "write" /\ Remaining >= ProgramHeader_size_with(op.ctx))
       => (res.ok /\ res.size = ProgramHeader_size_with(op.ctx))
  /\ (op.name = "read" /\ wrote.valid /\ op.a = wrote.at /\ op.ctx = wrote.ctx
        /\ Fits(wrote.value, wrote.ctx))
       => (res.ok /\ res.val = wrote.value)
\* a 32-bit big-endian round trip of the header with the largest 32-bit fields
C1_Witness ==
  /\ op.name = "read" /\ wrote.valid /\ op.a = wrote.at /\ op.ctx = wrote.ctx
  /\ op.ctx = [container |-> "Little", le |-> "BE"]
  /\ wrote.value = HdrMax32 /\ res.ok /\ res.val = HdrMax32

\* C2: read-one of a ProgramHeader or of an Nlist, with fewer than size(ctx) bytes
\* left at the read offset, returns an error and no value; and no read-one reads a
\* byte at or past the end of the buffer.
C2_BoundsSafe ==
  /\ (op.name = "read" /\ Remaining < ProgramHeader_size_with(op.ctx)) => ~res.ok
  /\ (op.name = "read_nlist" /\ Remaining < Nlist_size_with(op.ctx)) => ~res.ok
  /\ op.name \in {"read", "read_nlist"} => res.hi <= Len(data)
\* a symbol entry one byte short of its size
C2_Witness ==
  /\ op.name = "read_nlist" /\ Remaining = Nlist_size_with(op.ctx) - 1
  /\ ~res.ok /\ res.err.kind = "TooBig"

\* C3: size(ctx) is 32 / 56 for program headers and 12 / 16 for symbol entries, by
\* the width of the context alone, and a successful read-one reports exactly
\* size(ctx) bytes consumed.
C3_FixedSize ==
  /\ \A c \in Ctxs :
       /\ ProgramHeader_size_with(c) = IF c.container = "Little" THEN 32 ELSE 56
       /\ Nlist_size_with(c) = IF c.container = "Little" THEN 12 ELSE 16
  /\ (op.name = "read" /\ res.ok) => res.size = ProgramHeader_size_with(op.ctx)
  /\ (op.name = "read_nlist" /\ res.ok) => res.size = Nlist_size_with(op.ctx)
\* a successful wide big-endian read of a program header
C3_Witness ==
  /\ op.name = "read" /\ res.ok /\ op.ctx = [container |-> "Big", le |-> "BE"] /\ res.size = 56

\* C4: the first nsyms calls of next() on a fresh iterator each yield an item, Ok or
\* Err, and every later call reports the end; a step of one iterator leaves the view
\* and the other iterators as they were.
C4_Counts ==
  \A i \in IterIds : iters[i].live =>
    \A k \in 1..Len(out[i]) : out[i][k].some <=> (k <= syms.nsyms)
C4_Step ==
  \A i \in IterIds : (iters'[i] # iters[i] \/ out'[i] # out[i]) =>
    /\ syms' = syms
    /\ \A j \in IterIds \ {i} : iters'[j] = iters[j] /\ out'[j] = out[j]
C4_IterationCount == []C4_Counts /\ [][C4_Step]_vars
\* an iterator over two entries that yielded an error, then a symbol, then the end,
\* while the other iterator of the view has not moved
C4_Witness ==
  \E i \in IterIds :
    /\ syms.nsyms = 2 /\ Len(out[i]) = 3
    /\ out[i][1].some /\ ~out[i][1].item.ok
    /\ out[i][2].some /\ out[i][2].item.ok
    /\ ~out[i][3].some
    /\ \E j \in IterIds \ {i} : iters[j].live /\ out[j] = <<>>

\* C5 (as claimed): get(index) with index at or beyond the declared count returns an
\* error.
C5_OutOfRangeGet ==
  (op.name = "get" /\ op.a >= syms.nsyms) => ~res.ok

\* C6 (as claimed): no operation panics.
C6_NoPanic == ~panicked

\* read-one of the i-th record of the last bulk read
ParseReadAt(i) == gread_ph(data, op.a + i * ProgramHeader_size_with(op.ctx), op.ctx)
\* C7: ProgramHeader::parse returns the count values read-one gives at offsets
\* start + i * size(ctx), in that order, or else the error of the lowest-index failing
\* read and no list; with count 0 it returns the empty list and reads nothing.
C7_BulkRead ==
  op.name = "parse" =>
    LET failing == {i \in 0..(op.b - 1) : ~ParseReadAt(i).ok} IN
    /\ failing = {} =>
         /\ res.ok /\ Len(res.val) = op.b
         /\ \A i \in 0..(op.b - 1) : res.val[i + 1] = ParseReadAt(i).val
    /\ failing # {} =>
         /\ ~res.ok
         /\ \E i \in failing : (\A j \in failing : i <= j) /\ res.err = ParseReadAt(i).err
    /\ op.b = 0 => res.ok /\ res.val = <<>> /\ res.hi = 0
\* two wide records read in a row
C7_Witness ==
  /\ op.name = "parse" /\ op.b = 2 /\ op.ctx.container = "Big" /\ res.ok /\ Len(res.val) = 2

\* entry k of the file under its symtab command, by absolute file offsets
AbsSym(k) == gread_nlist(data, cmd.symoff + k * Nlist_size_with(fctx), fctx)
AbsName(k) == pread_str(data, cmd.stroff + ToUsize(AbsSym(k).val.n_strx))
\* C8: Symbols::parse with stroff >= symoff and symoff inside the file gives the view
\* over file[symoff..] with start 0, count nsyms and string-table base stroff -
\* symoff; get(k) on it reads the record at file offset symoff + k * size(ctx) and its
\* name at file offset stroff + n_strx.
C8_RelativeStrtab ==
  (cmd.stroff >= cmd.symoff /\ cmd.symoff < Len(data)) =>
    /\ op.name = "parse_syms" =>
         /\ res.ok /\ syms.live
         /\ syms.data = Slice(data, cmd.symoff) /\ syms.start = 0
         /\ syms.nsyms = cmd.nsyms /\ syms.strtab = cmd.stroff - cmd.symoff
         /\ syms.ctx = fctx
    /\ (op.name = "get" /\ syms.start = 0) =>
         /\ res.ok <=> (AbsSym(op.a).ok /\ AbsName(op.a).ok)
         /\ res.ok => res.val = [name |-> AbsName(op.a).val, sym |-> AbsSym(op.a).val]
\* "bar", the name of entry 1, found through a parsed view
C8_Witness ==
  /\ cmd.stroff >= cmd.symoff /\ cmd.symoff < Len(data) /\ cmd.symoff > 0
  /\ op.name = "get" /\ syms.start = 0 /\ op.a = 1
  /\ res.ok /\ res.val.name = <<98, 97, 114>>

\* the last operation was a get or a yielding next whose record read succeeded
NameStep == op.name \in {"get", "next"} /\ sym.ok
\* the offset its name is read at
NameAt == SatAdd(syms.strtab, ToUsize(sym.val.n_strx))
\* there is a 0 byte at or after the name offset, and the offset of the first one
HasNul == \E j \in NameAt..(Len(syms.data) - 1) : syms.data[j + 1] = 0
FirstNul ==
  CHOOSE j \in NameAt..(Len(syms.data) - 1) :
    syms.data[j + 1] = 0 /\ \A m \in NameAt..(j - 1) : syms.data[m + 1] # 0
\* the bytes from the name offset up to, not including, the first 0 byte
NameBytes == SubSeq(syms.data, NameAt + 1, FirstNul)

\* C9 (as claimed): when the record read succeeds and a 0 byte follows the name
\* offset, the step returns the bytes up to that 0 byte as the name, with the record.
C9_NameAsClaimed ==
  (NameStep /\ HasNul) => (res.ok /\ res.val = [name |-> NameBytes, sym |-> sym.val])
\* C9 (amended): ... it does so when those bytes are valid UTF-8, and returns an
\* error when they are not.
C9_NameResolution ==
  (NameStep /\ HasNul) =>
    IF from_utf8(NameBytes)
    THEN res.ok /\ res.val = [name |-> NameBytes, sym |-> sym.val]
    ELSE ~res.ok /\ res.err.kind = "BadInput"
\* an iteration step returns "bar" for string index 5, behind a string table that
\* does not start the buffer
C9_Witness ==
  /\ NameStep /\ HasNul /\ syms.strtab > 0 /\ res.ok
  /\ ToUsize(sym.val.n_strx) = 5 /\ res.val.name = <<98, 97, 114>> /\ op.name = "next"

\* C10 (as claimed): when the name offset is at or past the end of the buffer, or no
\* 0 byte follows it, the step returns an error.
C10_MalformedString ==
  (NameStep /\ (NameAt >= Len(syms.data) \/ ~HasNul)) => ~res.ok

\* the wire offset and the width of field f of a program header in the layout of
\* container c: narrow, eight 4-byte fields with p_flags at byte 24; wide, p_type and
\* p_flags in 4 bytes each, then six 8-byte fields from byte 8
WireOffset(c, f) ==
  IF c.container = "Little"
  THEN CASE f = "p_type" -> 0 [] f = "p_offset" -> 4 [] f = "p_vaddr" -> 8 [] f = "p_paddr" -> 12
         [] f = "p_filesz" -> 16 [] f = "p_memsz" -> 20 [] f = "p_flags" -> 24 [] f = "p_align" -> 28
  ELSE CASE f = "p_type" -> 0 [] f = "p_flags" -> 4 [] f = "p_offset" -> 8 [] f = "p_vaddr" -> 16
         [] f = "p_paddr" -> 24 [] f = "p_filesz" -> 32 [] f = "p_memsz" -> 40 [] f = "p_align" -> 48
WireWidth(c, f) ==
  IF c.container = "Little" \/ f \in {"p_type", "p_flags"} THEN 4 ELSE 8
\* the bytes of field f of the record the last read-one read, in buffer order
WireBytes(f) ==
  SubSeq(data, op.a + WireOffset(op.ctx, f) + 1, op.a + WireOffset(op.ctx, f) + WireWidth(op.ctx, f))
\* those bytes as an integer in the byte order of the context (digits, lowest first),
\* widened to the canonical field
WireValue(f) ==
  LET v == IF op.ctx.le = "LE" THEN WireBytes(f) ELSE Reverse(WireBytes(f)) IN
  IF f \in {"p_type", "p_flags"} THEN v ELSE v \o Zeros(8 - Len(v))

\* C11: a successful read-one returns, in every field, the bytes at the field's fixed
\* wire offset read as a little-endian integer when the context says little and as a
\* big-endian integer when it says big; the wide file-offset bytes 00 10 00 00 00 00 00 00
\* give 0x1000 under little-endian and 0x0010000000000000 under big-endian.
C11_ContextByteOrder ==
  (op.name = "read" /\ res.ok) =>
    /\ \A f \in DOMAIN res.val : res.val[f] = WireValue(f)
    /\ (op.ctx.container = "Big" /\ WireBytes("p_offset") = <<0, 16, 0, 0, 0, 0, 0, 0>>) =>
         res.val.p_offset = IF op.ctx.le = "LE" THEN <<0, 16, 0, 0, 0, 0, 0, 0>>
                            ELSE <<0, 0, 0, 0, 0, 0, 16, 0>>
\* the wide record written little-endian with file offset 0x1000 is read back under a
\* big-endian context: the file offset is 0x0010000000000000
C11_Witness ==
  /\ op.name = "read" /\ res.ok /\ op.ctx = [container |-> "Big", le |-> "BE"]
  /\ wrote.valid /\ wrote.ctx = [container |-> "Big", le |-> "LE"] /\ wrote.at = op.a
  /\ WireBytes("p_offset") = <<0, 16, 0, 0, 0, 0, 0, 0>>
  /\ res.val.p_offset = <<0, 0, 0, 0, 0, 0, 16, 0>>

\* C12: for the entry with type byte t and section ordinal s, get_type is t AND 0x0e
\* (bits 1..3 of t, in place), is_global holds iff bit 0x01 of t is set, is_stab holds
\* iff one of the bits 0xe0 of t is set, is_undefined holds iff s = 0 and t AND 0x0e = 0,
\* and the entry is unchanged; t = 0x01, s = 0 is global, undefined and not a stab.
C12_Predicates ==
  (op.name = "predicates") =>
    LET t == sym.val.n_type
        s == sym.val.n_sect
        p == res.val
    IN /\ p.get_type = 2 * ((t \div 2) % 8)
       /\ p.is_global <=> (t % 2 = 1)
       /\ p.is_stab <=> (t \div 32 # 0)
       /\ p.is_undefined <=> (s = 0 /\ (t \div 2) % 8 = 0)
       /\ p.entry = sym.val
       /\ (t = 1 /\ s = 0) => (p.is_global /\ p.is_undefined /\ ~p.is_stab)
\* the entry with type byte 0x01 and section ordinal 0 has been classified
C12_Witness ==
  /\ op.name = "predicates" /\ sym.val.n_type = 1 /\ sym.val.n_sect = 0
  /\ res.val.is_global /\ res.val.is_undefined /\ ~res.val.is_stab

\* C13: on a view whose offsets do not overflow, the k-th item of an iterator is Ok
\* exactly when get(k) is Ok, and then both carry the same name and the same entry;
\* a step whose record read succeeds moves the cursor on by one record, also when the
\* name does not resolve, and a step whose record read fails leaves the cursor.
C13_Agree ==
  (syms.live /\ syms.start < Big /\ syms.strtab < Big) =>
    \A i \in IterIds : iters[i].live =>
      \A k \in 1..Len(out[i]) : out[i][k].some =>
        LET g == Symbols_get(syms, k - 1) IN
        /\ out[i][k].item.ok <=> g.ok
        /\ g.ok => (out[i][k].item.val.name = g.val.name /\ out[i][k].item.val.sym = g.val.sym)
C13_Cursor ==
  \A i \in IterIds : (iters[i].live /\ Len(out'[i]) = Len(out[i]) + 1 /\ out'[i][Len(out'[i])].some) =>
    iters'[i].offset = iters[i].offset + (IF sym'.ok THEN Nlist_size_with(iters[i].ctx) ELSE 0)
C13_IterGetAgree == []C13_Agree /\ [][C13_Cursor]_vars
\* the first step of an iterator failed on the name of its record, and the second
\* step returned what get(1) returns
C13_Witness ==
  \E i \in IterIds :
    /\ Len(out[i]) >= 2 /\ ~out[i][1].item.ok /\ out[i][2].item.ok
    /\ Symbols_get_sym(syms, 0).ok /\ ~Symbols_get(syms, 0).ok
    /\ Symbols_get(syms, 1).ok /\ out[i][2].item.val = Symbols_get(syms, 1).val

====
